---- MODULE Spec2Model ----
(***************************************************************************)
(* Model of thread-cleanup/delete.py: the interactive thread cleanup tool. *)
(*                                                                         *)
(* A thread (one JSON object of the server's answer) is a record           *)
(*   [thread_id, created_at, status, runs, graph_id].                      *)
(* A key of the JSON object that may be missing is an option: <<>> when    *)
(* the key is absent (or null), <<v>> when it holds v; Get reads it the    *)
(* way dict.get does.  runs holds the length of the thread's 'runs' list,  *)
(* the only thing the program reads of it; graph_id is                     *)
(* thread['metadata']['graph_id'], absent when the metadata is absent,     *)
(* empty, or has no such key.  created_at holds the string as              *)
(* [fmt, t]: fmt "empty" for the empty string, "invalid" for a string      *)
(* datetime.fromisoformat rejects, "utc" for an ISO-8601 string with a     *)
(* UTC designator, whose POSIX timestamp is t (seconds).                   *)
(*                                                                         *)
(* A Python dict is a sequence of [key, val] entries in insertion order.   *)
(***************************************************************************)
EXTENDS Integers, Sequences, FiniteSets, TLC

VARIABLES
    pc,                \* the program's position: the prompt or request it is at
    exit_code,         \* the process exit status once pc = "exit" (-1 while running)
    error,             \* the exception that ended the run ("" if none)
    srv_threads,       \* environment: the threads the server holds, in its order
    tz_offset,         \* environment: the machine's local time minus UTC (seconds)
    answer,            \* the line the last ask_question returned
    ep,                \* interactive_clean: index of the candidate endpoint on trial
    working_endpoint,  \* interactive_clean: the adopted endpoint (0 for None)
    offset,            \* interactive_clean: the pagination offset
    all_threads,       \* interactive_clean: the fetched resource set
    session_log,       \* the requests made on the open aiohttp session, in order
    categories,        \* the category index last computed by categorize_threads
    now,               \* select_by_time, select_custom_date_range: the clock reading
    cutoff_time,       \* select_custom_date_range: the accepted cutoff (0 outside it)
    threads_to_delete, \* the filtered subset a filter menu or Review holds
    start_index,       \* review_threads / preview_all_threads: first index of the page
    selection,         \* interactive_clean: what select_threads_to_delete returned
    deleted,           \* delete_threads: count of successful DELETEs
    failed,            \* delete_threads: count of failed DELETEs
    total_deleted,     \* interactive_clean: what delete_threads returned (-1 before)
    in_flight          \* the requests sent whose response or exception is still to come

vars == <<pc, exit_code, error, srv_threads, tz_offset, answer, ep, working_endpoint, offset,
          all_threads, session_log, categories, now, cutoff_time, threads_to_delete,
          start_index, selection, deleted, failed, total_deleted, in_flight>>

envVars == <<srv_threads, tz_offset>>
fetchVars == <<ep, working_endpoint, offset, all_threads, session_log>>
deleteVars == <<selection, deleted, failed, total_deleted>>
exitVars == <<exit_code, error>>

\* ------------------------------------------------------------------ bounds
MaxLen == 2
MaxRuns == 21
\* the clock reads Now0 .. Now0 + ClockSpan (Now0 is 2024-01-15T12:00:00Z)
Now0 == 1705320000
ClockSpan == 1

\* ------------------------------------------------------------- Python data
Get(field, default) == IF field = <<>> THEN default ELSE field[1]

DictHas(d, k) == \E i \in 1..Len(d) : d[i].key = k

DictGet(d, k) == d[CHOOSE i \in 1..Len(d) : d[i].key = k].val

DictKeys(d) == [i \in 1..Len(d) |-> d[i].key]

\* d[k].append(x), after d[k] = [] when k is not yet a key of d
DictAppendTo_Front(d, k, x) ==
    IF DictHas(d, k)
    THEN [i \in 1..Len(d) |-> IF d[i].key = k THEN [d[i] EXCEPT !.val = <<x>> \o @]
                                ELSE d[i]]
    ELSE Append(d, [key |-> k, val |-> <<x>>])

DictAppendTo(d, k, x) ==
    IF DictHas(d, k)
    THEN [i \in 1..Len(d) |->
            IF d[i].key = k THEN [key |-> k, val |-> Append(d[i].val, x)] ELSE d[i]]
    ELSE Append(d, [key |-> k, val |-> <<x>>])

\* ---------------------------------------------------------- categorization
\* thread.get('metadata') and thread['metadata'].get('graph_id'): the truth
\* value of the graph_id string (None and '' are false)
GraphTruthy(thread) == thread.graph_id # <<>> /\ thread.graph_id[1] # ""

GraphStep_AbsentToo(byGraph, thread) ==
    DictAppendTo(byGraph, Get(thread.graph_id, ""), thread)

GraphStep(byGraph, thread) ==
    IF GraphTruthy(thread)
    THEN DictAppendTo(byGraph, thread.graph_id[1], thread)
    ELSE byGraph

StatusStep_NewestFirst(byStatus, thread) ==
    LET status == Get(thread.status, "unknown")
    IN IF DictHas(byStatus, status) THEN DictAppendTo(byStatus, status, thread)
       ELSE <<[key |-> status, val |-> <<thread>>]>> \o byStatus

StatusStep_SkipAbsent(byStatus, thread) ==
    IF thread.status = <<>> THEN byStatus
    ELSE DictAppendTo(byStatus, thread.status[1], thread)

StatusStep(byStatus, thread) ==
    DictAppendTo(byStatus, Get(thread.status, "unknown"), thread)

RunsCategory_Off(run_count) ==
    IF run_count = 0 THEN "0 runs"
    ELSE IF run_count = 1 THEN "1 run"
    ELSE IF run_count <= 5 THEN ToString(run_count) \o " runs"
    ELSE IF run_count < 10 THEN "5-9 runs"
    ELSE IF run_count < 20 THEN "10-19 runs"
    ELSE "20+ runs"

RunsCategory(run_count) ==
    IF run_count = 0 THEN "0 runs"
    ELSE IF run_count = 1 THEN "1 run"
    ELSE IF run_count < 5 THEN ToString(run_count) \o " runs"
    ELSE IF run_count < 10 THEN "5-9 runs"
    ELSE IF run_count < 20 THEN "10-19 runs"
    ELSE "20+ runs"

RunCount(thread) == Get(thread.runs, 0)

RunsStep(byRuns, thread) ==
    DictAppendTo(byRuns, RunsCategory(RunCount(thread)), thread)

EmptyCategories(threads) ==
    [byGraph |-> <<>>, byStatus |-> <<>>, byRuns |-> <<>>, allThreads |-> threads]

CategorizeStep(cats, thread) ==
    [cats EXCEPT !.byGraph = GraphStep(@, thread),
                 !.byStatus = StatusStep(@, thread),
                 !.byRuns = RunsStep(@, thread)]

RECURSIVE CategorizeLoop(_, _, _)
CategorizeLoop(cats, threads, i) ==
    IF i > Len(threads) THEN cats
    ELSE CategorizeLoop(CategorizeStep(cats, threads[i]), threads, i + 1)

categorize_threads(threads) == CategorizeLoop(EmptyCategories(threads), threads, 1)

\* ---------------------------------------------------------- operator input
\* the lines the operator may type at any prompt
Inputs ==
    {"0", "1", "2", "3", "4", "5", "6", "7", "8", "-1", "", "abc",
     "yes", "YES", "no", "DELETE ALL", "delete all",
     "2024-01-15", "2024-01-15 14:30", "2024-01-14 09:00", "2024-01-15 12:00"}

\* str.lower
Lower(s) ==
    CASE s = "YES" -> "yes"
      [] s = "DELETE ALL" -> "delete all"
      [] OTHER -> s

\* the lines int() accepts, and the value it gives; on any other it raises ValueError
IsIntLiteral(s) == s \in {"0", "1", "2", "3", "4", "5", "6", "7", "8", "-1"}

IntOf(s) ==
    CASE s = "0" -> 0 [] s = "1" -> 1 [] s = "2" -> 2 [] s = "3" -> 3 [] s = "4" -> 4
      [] s = "5" -> 5 [] s = "6" -> 6 [] s = "7" -> 7 [] s = "8" -> 8 [] s = "-1" -> 0 - 1

\* --------------------------------------------------------------------- time
ClockValues == Now0 .. (Now0 + ClockSpan)

Hour == 60 * 60
Week == 7 * 24 * 60 * 60
Month == 30 * 24 * 60 * 60

ThreadTime_UnparseableAsEpoch(thread) ==
    IF thread.created_at = <<>> THEN <<>>
    ELSE <<thread.created_at[1].t>>

\* datetime.fromisoformat(created_at.replace('Z', '+00:00')).timestamp() under
\* "if created_at:" and the bare except: <<t>>, or <<>> when the thread is skipped
ThreadTime(thread) ==
    IF thread.created_at = <<>> THEN <<>>
    ELSE IF thread.created_at[1].fmt = "utc" THEN <<thread.created_at[1].t>>
    ELSE <<>>

\* start_time of select_by_time for the menu options 1 to 4
TimeStart(choice, clock) ==
    CASE choice = "1" -> clock - Hour
      [] choice = "2" -> clock - Week
      [] choice = "3" -> clock - Month
      [] choice = "4" -> 0

InWindow_OpenStart(start_time, thread_time, end_time) ==
    start_time < thread_time /\ thread_time <= end_time

InWindow(start_time, thread_time, end_time) ==
    start_time <= thread_time /\ thread_time <= end_time

RECURSIVE FilterByTime(_, _, _, _)
FilterByTime(threads, start_time, end_time, i) ==
    IF i > Len(threads) THEN <<>>
    ELSE LET tt == ThreadTime(threads[i])
             rest == FilterByTime(threads, start_time, end_time, i + 1)
         IN IF tt # <<>> /\ InWindow(start_time, tt[1], end_time)
            THEN <<threads[i]>> \o rest
            ELSE rest

\* ------------------------------------------------- the selection state machine
\* Every menu function ends in "return await <another menu function>" or in a
\* return of its result, so a chain of calls is one position (pc) and the locals
\* of the function at the end of the chain.  An action is one ask_question and
\* what the program does with the line up to its next prompt or request.
threads_per_page == 5

NoneSelection == [kind |-> "none"]

ListSelection(threads) == [kind |-> "list", threads |-> threads]

Locals(n, c, t, s) ==
    now' = n /\ cutoff_time' = c /\ threads_to_delete' = t /\ start_index' = s

NoLocals == Locals(0, 0, <<>>, 0)

\* the program goes on to the prompt at position p
Continue(p) ==
    /\ pc' = p
    /\ UNCHANGED <<selection, total_deleted, exit_code, error>>

BackToMain_FromSubset ==
    /\ categories' = categorize_threads(threads_to_delete)
    /\ Continue("main")
    /\ NoLocals

\* full_categories = self.categorize_threads(all_threads)
\* return await self.select_threads_to_delete(full_categories, all_threads)
BackToMain ==
    /\ categories' = categorize_threads(all_threads)
    /\ Continue("main")
    /\ NoLocals

\* not threads_to_delete or len(threads_to_delete) == 0
NothingToDelete(sel) == sel.kind = "none" \/ Len(sel.threads) = 0

NormalCompletion_FailOnNone(total) ==
    /\ total_deleted' = total
    /\ pc' = "exit"
    /\ exit_code' = IF total = 0 THEN 1 ELSE 0

\* delete_threads returns total to interactive_clean, which prints the closing
\* line and returns; main returns and the process ends with status 0
NormalCompletion(total) ==
    /\ total_deleted' = total
    /\ pc' = "exit"
    /\ exit_code' = 0

\* the state machine returns sel to interactive_clean, which hands it to
\* delete_threads: that returns 0 at once on None or [], and the run completes;
\* otherwise it asks its confirmation
Return(sel) ==
    /\ selection' = sel
    /\ NoLocals
    /\ UNCHANGED <<categories, error>>
    /\ IF NothingToDelete(sel)
       THEN NormalCompletion(0)
       ELSE pc' = "delete_confirm" /\ UNCHANGED <<total_deleted, exit_code>>

\* an exception reaches interactive_clean's "except Exception": sys.exit(1)
Fatal(e) ==
    /\ error' = e
    /\ exit_code' = 1
    /\ pc' = "exit"
    /\ NoLocals
    /\ UNCHANGED <<selection, total_deleted, categories>>

\* review_threads / preview_all_threads: the page starting at start is the last
LastPage(threads, start) == start + threads_per_page >= Len(threads)

\* entering review_threads(threads, description, all_threads): its first prompt
EnterReview(threads) ==
    /\ Locals(0, 0, threads, 0)
    /\ Continue(IF LastPage(threads, 0) THEN "review_end" ELSE "review_page")
    /\ UNCHANGED categories

menuFrame == <<envVars, fetchVars, deleted, failed, in_flight>>

select_threads_to_delete ==
    /\ pc = "main"
    /\ \E line \in Inputs :
         /\ answer' = line
         /\ \/ /\ line = "1"
               /\ Continue("by_time") /\ NoLocals /\ UNCHANGED categories
            \/ /\ line = "2"
               /\ Continue("by_status") /\ NoLocals /\ UNCHANGED categories
            \/ /\ line = "3"
               /\ categories' = categorize_threads(all_threads)
               /\ Continue("by_runs") /\ NoLocals
            \/ /\ line = "4"
               /\ categories' = categorize_threads(all_threads)
               /\ Continue("by_graph") /\ NoLocals
            \/ /\ line = "5"
               /\ Continue(IF Len(all_threads) = 0 THEN "preview_empty"
                           ELSE IF LastPage(all_threads, 0) THEN "preview_end"
                           ELSE "preview_page")
               /\ NoLocals /\ UNCHANGED categories
            \/ /\ line = "6"
               /\ Continue("cda_menu") /\ NoLocals /\ UNCHANGED categories
            \/ /\ line = "7"
               /\ Return(NoneSelection)
            \/ /\ line \notin {"1", "2", "3", "4", "5", "6", "7"}
               /\ Return(NoneSelection)
    /\ UNCHANGED menuFrame

\* the prompt of a page that is not the last
preview_all_threads_page ==
    /\ pc = "preview_page"
    /\ \E line \in Inputs :
         /\ answer' = line
         /\ IF line = "2"
            THEN BackToMain
            ELSE LET end_index == start_index + threads_per_page
                 IN /\ Locals(0, 0, <<>>, end_index)
                    /\ Continue(IF LastPage(all_threads, end_index)
                                THEN "preview_end" ELSE "preview_page")
                    /\ UNCHANGED categories
    /\ UNCHANGED menuFrame

preview_all_threads_end_ReturnsAll ==
    /\ pc = "preview_end"
    /\ \E line \in Inputs : answer' = line
    /\ Return(ListSelection(all_threads))
    /\ UNCHANGED menuFrame

\* the prompt after the last page: whatever is typed leads back to the main menu
preview_all_threads_end ==
    /\ pc = "preview_end"
    /\ \E line \in Inputs : answer' = line
    /\ BackToMain
    /\ UNCHANGED menuFrame

\* select_by_time: the prompt of the time menu; options 1 to 4 filter
select_by_time ==
    /\ pc = "by_time"
    /\ \E line \in Inputs, clock \in ClockValues :
         /\ answer' = line
         /\ \/ /\ line \in {"1", "2", "3", "4"}
               /\ LET found == FilterByTime(all_threads, TimeStart(line, clock), clock, 1)
                  IN /\ Locals(clock, 0, found, 0)
                     /\ Continue(IF Len(found) = 0 THEN "by_time" ELSE "time_review")
               /\ UNCHANGED categories
            \/ /\ line = "5"
               /\ Continue("custom_range") /\ NoLocals /\ UNCHANGED categories
            \/ /\ line = "6"
               /\ BackToMain
            \/ /\ line \notin {"1", "2", "3", "4", "5", "6"}
               /\ Continue("by_time") /\ Locals(clock, 0, <<>>, 0) /\ UNCHANGED categories
    /\ UNCHANGED menuFrame

\* select_by_time: the review / delete immediately / back prompt
select_by_time_review ==
    /\ pc = "time_review"
    /\ \E line \in Inputs :
         /\ answer' = line
         /\ \/ /\ line = "1"
               /\ EnterReview(threads_to_delete)
            \/ /\ line = "2"
               /\ Return(ListSelection(threads_to_delete))
            \/ /\ line = "3"
               /\ Continue("by_time") /\ NoLocals /\ UNCHANGED categories
            \/ /\ line \notin {"1", "2", "3"}
               /\ Return(ListSelection(threads_to_delete))
    /\ UNCHANGED menuFrame

\* datetime.fromisoformat(cutoff_date) for a line with a blank, and of the line
\* with ' 00:00:00' appended otherwise: the wall-clock time read as seconds since
\* 1970-01-01 00:00 (<<>> when it raises ValueError)
NaiveDatetime(line) ==
    CASE line = "2024-01-15" -> <<1705276800>>
      [] line = "2024-01-15 14:30" -> <<1705329000>>
      [] line = "2024-01-14 09:00" -> <<1705222800>>
      [] line = "2024-01-15 12:00" -> <<1705320000>>
      [] OTHER -> <<>>

\* .timestamp() of a naive datetime: it is taken as local time
LocalTimestamp(naive) == naive - tz_offset

CutoffInFuture_Never(cutoff, clock) == FALSE

\* cutoff_time > datetime.now().timestamp()
CutoffInFuture(cutoff, clock) == cutoff > clock

CreatedBefore_Inclusive(thread_time, cutoff) == thread_time <= cutoff

\* dt.timestamp() < cutoff_time
CreatedBefore(thread_time, cutoff) == thread_time < cutoff

RECURSIVE FilterBefore(_, _, _)
FilterBefore(threads, cutoff, i) ==
    IF i > Len(threads) THEN <<>>
    ELSE LET tt == ThreadTime(threads[i])
             rest == FilterBefore(threads, cutoff, i + 1)
         IN IF tt # <<>> /\ CreatedBefore(tt[1], cutoff)
            THEN <<threads[i]>> \o rest
            ELSE rest

\* select_custom_date_range: the cutoff prompt; a line that does not parse
\* raises ValueError before the clock is read
select_custom_date_range ==
    /\ pc = "custom_range"
    /\ \E line \in Inputs, clock \in ClockValues :
         /\ answer' = line
         /\ LET parsed == NaiveDatetime(line) IN
            IF parsed = <<>>
            THEN Continue("custom_range") /\ NoLocals
            ELSE LET cutoff == LocalTimestamp(parsed[1])
                     found == FilterBefore(all_threads, cutoff, 1)
                 IN IF CutoffInFuture(cutoff, clock)
                    THEN Continue("custom_range") /\ Locals(clock, 0, <<>>, 0)
                    ELSE /\ Locals(clock, cutoff, found, 0)
                         /\ Continue(IF Len(found) = 0 THEN "custom_empty"
                                     ELSE "custom_review")
    /\ UNCHANGED categories
    /\ UNCHANGED menuFrame

\* select_custom_date_range: the prompt shown when nothing was found
select_custom_date_range_empty ==
    /\ pc = "custom_empty"
    /\ \E line \in Inputs :
         /\ answer' = line
         /\ Continue(IF line = "1" THEN "custom_range" ELSE "by_time")
    /\ NoLocals
    /\ UNCHANGED categories
    /\ UNCHANGED menuFrame

\* select_custom_date_range: the review / delete / other date / back prompt
select_custom_date_range_review ==
    /\ pc = "custom_review"
    /\ \E line \in Inputs :
         /\ answer' = line
         /\ \/ /\ line = "1"
               /\ EnterReview(threads_to_delete)
            \/ /\ line = "2"
               /\ Return(ListSelection(threads_to_delete))
            \/ /\ line = "3"
               /\ Continue("custom_range") /\ NoLocals /\ UNCHANGED categories
            \/ /\ line = "4"
               /\ Continue("by_time") /\ NoLocals /\ UNCHANGED categories
            \/ /\ line \notin {"1", "2", "3", "4"}
               /\ Return(ListSelection(threads_to_delete))
    /\ UNCHANGED menuFrame

CancelReview_KeepsSubset == Return(ListSelection(threads_to_delete))

\* review_threads: "if all_threads:" on cancelling
CancelReview ==
    IF Len(all_threads) > 0 THEN BackToMain ELSE Return(ListSelection(<<>>))

\* review_threads: the prompt of a page that is not the last
review_threads_page ==
    /\ pc = "review_page"
    /\ \E line \in Inputs :
         /\ answer' = line
         /\ \/ /\ line = "2"
               /\ Return(ListSelection(threads_to_delete))
            \/ /\ line = "3"
               /\ CancelReview
            \/ /\ line \notin {"2", "3"}
               /\ LET end_index == start_index + threads_per_page
                  IN /\ Locals(0, 0, threads_to_delete, end_index)
                     /\ Continue(IF LastPage(threads_to_delete, end_index)
                                 THEN "review_end" ELSE "review_page")
               /\ UNCHANGED categories
    /\ UNCHANGED menuFrame

\* review_threads: the prompt after the last page
review_threads_end ==
    /\ pc = "review_end"
    /\ \E line \in Inputs :
         /\ answer' = line
         /\ \/ /\ line = "2"
               /\ CancelReview
            \/ /\ line # "2"
               /\ Return(ListSelection(threads_to_delete))
    /\ UNCHANGED menuFrame

\* confirm_delete_all: the three prompts
ConfirmPhrase_AnyCase(line) == Lower(line) = "delete all"

ConfirmPhrase(line) == line = "DELETE ALL"

\* confirm2.lower() == 'yes'
FinalYes(line) == Lower(line) = "yes"

confirm_delete_all_menu ==
    /\ pc = "cda_menu"
    /\ \E line \in Inputs :
         /\ answer' = line
         /\ IF line # "1"
            THEN BackToMain
            ELSE Continue("cda_phrase") /\ NoLocals /\ UNCHANGED categories
    /\ UNCHANGED menuFrame

confirm_delete_all_phrase ==
    /\ pc = "cda_phrase"
    /\ \E line \in Inputs :
         /\ answer' = line
         /\ IF ~ConfirmPhrase(line)
            THEN BackToMain
            ELSE Continue("cda_final") /\ NoLocals /\ UNCHANGED categories
    /\ UNCHANGED menuFrame

confirm_delete_all_final ==
    /\ pc = "cda_final"
    /\ \E line \in Inputs :
         /\ answer' = line
         /\ IF ~FinalYes(line)
            THEN BackToMain
            ELSE Return(ListSelection(all_threads))
    /\ UNCHANGED menuFrame

\* select_by_status / select_by_runs / select_by_graph after the line is read:
\* index = int(choice) - 1 and the three branches on it.  keys is the numbered
\* list of bucket names, review the position of the menu's second prompt.
SelectBucket_BackOnAnyOther(line, keys, buckets, review) ==
    IF ~IsIntLiteral(line)
    THEN Fatal("ValueError")
    ELSE LET index == IntOf(line) - 1 IN
         IF 0 <= index /\ index < Len(keys)
         THEN /\ Locals(0, 0, DictGet(buckets, keys[index + 1]), 0)
              /\ Continue(review)
              /\ UNCHANGED categories
         ELSE BackToMain

SelectBucket(line, keys, buckets, review) ==
    IF ~IsIntLiteral(line)
    THEN Fatal("ValueError")
    ELSE LET index == IntOf(line) - 1 IN
         IF 0 <= index /\ index < Len(keys)
         THEN /\ Locals(0, 0, DictGet(buckets, keys[index + 1]), 0)
              /\ Continue(review)
              /\ UNCHANGED categories
         ELSE IF index = Len(keys)
         THEN BackToMain
         ELSE Return(ListSelection(<<>>))

ReviewOrDelete_AsksAgain(line, menu) ==
    \/ /\ line = "1"
       /\ EnterReview(threads_to_delete)
    \/ /\ line = "2"
       /\ Return(ListSelection(threads_to_delete))
    \/ /\ line \notin {"1", "2"}
       /\ Continue(menu) /\ NoLocals /\ UNCHANGED categories

\* the review / delete immediately / back prompt of the three bucket menus
ReviewOrDelete(line, menu) ==
    \/ /\ line = "1"
       /\ EnterReview(threads_to_delete)
    \/ /\ line = "2"
       /\ Return(ListSelection(threads_to_delete))
    \/ /\ line = "3"
       /\ Continue(menu) /\ NoLocals /\ UNCHANGED categories
    \/ /\ line \notin {"1", "2", "3"}
       /\ Return(ListSelection(threads_to_delete))

select_by_status ==
    /\ pc = "by_status"
    /\ \E line \in Inputs :
         /\ answer' = line
         /\ SelectBucket(line, DictKeys(categories.byStatus), categories.byStatus,
                         "status_review")
    /\ UNCHANGED menuFrame

select_by_status_review ==
    /\ pc = "status_review"
    /\ \E line \in Inputs : answer' = line /\ ReviewOrDelete(line, "by_status")
    /\ UNCHANGED menuFrame

get_runs_value(category) ==
    CASE category = "0 runs" -> 0
      [] category = "1 run" -> 1
      [] category = "5-9 runs" -> 5
      [] category = "10-19 runs" -> 10
      [] category = "20+ runs" -> 20
      [] category = "2 runs" -> 2
      [] category = "3 runs" -> 3
      [] category = "4 runs" -> 4
      [] OTHER -> 0

SortByRunsValue_InsertionOrder(keys) == keys

\* list.sort(key=get_runs_value): a stable sort
RECURSIVE InsertByRunsValue(_, _)
InsertByRunsValue(sorted, category) ==
    IF sorted = <<>> THEN <<category>>
    ELSE IF get_runs_value(category) < get_runs_value(Head(sorted))
         THEN <<category>> \o sorted
         ELSE <<Head(sorted)>> \o InsertByRunsValue(Tail(sorted), category)

RECURSIVE SortByRunsValue(_)
SortByRunsValue(keys) ==
    IF keys = <<>> THEN <<>>
    ELSE InsertByRunsValue(SortByRunsValue(SubSeq(keys, 1, Len(keys) - 1)),
                           keys[Len(keys)])

select_by_runs ==
    /\ pc = "by_runs"
    /\ \E line \in Inputs :
         /\ answer' = line
         /\ SelectBucket(line, SortByRunsValue(DictKeys(categories.byRuns)),
                         categories.byRuns, "runs_review")
    /\ UNCHANGED menuFrame

select_by_runs_review ==
    /\ pc = "runs_review"
    /\ \E line \in Inputs : answer' = line /\ ReviewOrDelete(line, "by_runs")
    /\ UNCHANGED menuFrame

select_by_graph ==
    /\ pc = "by_graph"
    /\ \E line \in Inputs :
         /\ answer' = line
         /\ SelectBucket(line, DictKeys(categories.byGraph), categories.byGraph,
                         "graph_review")
    /\ UNCHANGED menuFrame

select_by_graph_review ==
    /\ pc = "graph_review"
    /\ \E line \in Inputs : answer' = line /\ ReviewOrDelete(line, "by_graph")
    /\ UNCHANGED menuFrame

\* ----------------------------------------------------------------- requests
\* Every request is made by "async with session.<method>(...) as response:":
\* the request is sent and the coroutine, the program's one thread of control,
\* is suspended until the response is there or an exception is raised.
RequestStates == {"probe", "paginate", "deleting"}

\* where the coroutine is suspended after sending from position p
WaitOf(p) ==
    CASE p = "probe" -> "probe_wait"
      [] p = "paginate" -> "page_wait"
      [] p = "deleting" -> "delete_wait"

StartRequest_NoAwait(wait) ==
    /\ in_flight' = in_flight + 1
    /\ pc' = pc

StartRequest(wait) ==
    /\ in_flight' = in_flight + 1
    /\ pc' = wait

\* the response or the exception of the request awaited
ResponseArrives == in_flight' = in_flight - 1

\* the next request of a loop (discovery, pagination, deletion) is sent
send_request ==
    /\ pc \in RequestStates
    /\ StartRequest(WaitOf(pc))
    /\ UNCHANGED <<envVars, fetchVars, deleteVars, exitVars, answer, categories, now,
                   cutoff_time, threads_to_delete, start_index>>

\* ----------------------------------------------------------------- deletion
\* what a request can come to: a success status, another status, an exception
Outcomes == {"ok", "fail", "raise"}

ConfirmYes_Prefix(line) == line \in {"yes", "YES", ""}

\* confirm.lower() == 'yes'
ConfirmYes(line) == Lower(line) = "yes"

\* delete_threads: the 'Are you sure' prompt (the selection is not empty here)
delete_threads_confirm ==
    /\ pc = "delete_confirm"
    /\ \E line \in Inputs :
         /\ answer' = line
         /\ IF ~ConfirmYes(line)
            THEN /\ NormalCompletion(0)
                 /\ UNCHANGED <<deleted, failed, session_log>>
            ELSE /\ deleted' = 0 /\ failed' = 0
                 /\ session_log' = <<>>
                 /\ pc' = "deleting"
                 /\ UNCHANGED <<total_deleted, exit_code>>
    /\ UNCHANGED <<envVars, ep, working_endpoint, offset, all_threads, categories, now,
                   in_flight,
                   cutoff_time, threads_to_delete, start_index, selection, error>>

DeleteRequest(thread, outcome) ==
    [method |-> "DELETE", url |-> [path |-> "/threads/{thread_id}", query |-> ""],
     arg |-> thread.thread_id,
     result |-> outcome, body |-> <<>>]

NewDeleted(outcome) == IF outcome = "ok" THEN deleted + 1 ELSE deleted

NewFailed_StatusOnly(outcome) == IF outcome = "fail" THEN failed + 1 ELSE failed

\* failed += 1 on "not response.ok" and in the except clause
NewFailed(outcome) == IF outcome # "ok" THEN failed + 1 ELSE failed

LoopGoesOn_StopOnRaise(outcome, i, n) == i < n /\ outcome # "raise"

\* the for loop goes on to the next thread whatever the outcome
LoopGoesOn(outcome, i, n) == i < n

\* delete_threads: the rest of one pass of the loop, the outcome of the i-th
\* DELETE, which "async with session.delete(...)" was suspended for; after
\* the last pass the summary is printed, delete_threads returns deleted and the
\* run completes
delete_threads_loop ==
    /\ pc = "delete_wait"
    /\ ResponseArrives
    /\ LET i == Len(session_log) + 1
           n == Len(selection.threads)
       IN \E outcome \in Outcomes :
            /\ session_log' = Append(session_log, DeleteRequest(selection.threads[i], outcome))
            /\ deleted' = NewDeleted(outcome)
            /\ failed' = NewFailed(outcome)
            /\ IF LoopGoesOn(outcome, i, n)
               THEN pc' = "deleting" /\ UNCHANGED <<total_deleted, exit_code>>
               ELSE NormalCompletion(deleted')
    /\ UNCHANGED <<envVars, answer, ep, working_endpoint, offset, all_threads, categories,
                   now, cutoff_time, threads_to_delete, start_index, selection, error>>

\* ---------------------------------------------------------------- discovery
Limit == 1000

\* a url is [path, query]: what stands before and after its '?'
endpoints_to_try ==
    << [method |-> "POST", url |-> [path |-> "/threads/search", query |-> ""]],
       [method |-> "GET", url |-> [path |-> "/threads", query |-> ""]],
       [method |-> "GET", url |-> [path |-> "/threads", query |-> "limit=1000"]] >>

Abort_GoesOn(e) ==
    /\ error' = e
    /\ pc' = "fetched"
    /\ UNCHANGED exit_code

\* an exception raised during discovery or pagination reaches
\* interactive_clean's "except Exception": sys.exit(1)
Abort(e) ==
    /\ error' = e
    /\ exit_code' = 1
    /\ pc' = "exit"

FetchRequest(e, url, at, outcome, page) ==
    [method |-> endpoints_to_try[e].method, url |-> url, arg |-> at,
     result |-> outcome, body |-> page]

\* interactive_clean: the rest of one pass of the discovery loop, the outcome of
\* the probe of candidate ep
probe_endpoint ==
    /\ pc = "probe_wait"
    /\ ResponseArrives
    /\ \E outcome \in Outcomes :
         /\ session_log' = Append(session_log,
                FetchRequest(ep, endpoints_to_try[ep].url, 0, outcome, <<>>))
         /\ IF outcome = "ok"
            THEN /\ working_endpoint' = ep
                 /\ pc' = "paginate"
                 /\ UNCHANGED <<ep, exit_code, error>>
            ELSE IF ep < Len(endpoints_to_try)
            THEN /\ ep' = ep + 1
                 /\ pc' = "probe"
                 /\ UNCHANGED <<working_endpoint, exit_code, error>>
            ELSE /\ Abort("Could not find a working threads endpoint")
                 /\ UNCHANGED <<ep, working_endpoint>>
    /\ UNCHANGED <<envVars, answer, offset, all_threads, categories, now, cutoff_time,
                   threads_to_delete, start_index, deleteVars>>

PageUrl_FirstCandidate(e, at) == endpoints_to_try[1].url

\* the url of a page request: the POST carries the offset in its body; the GET
\* carries it in the query put after url.split('?')[0] once it is positive
PageUrl(e, at) ==
    IF endpoints_to_try[e].method = "POST" THEN endpoints_to_try[e].url
    ELSE IF at > 0
    THEN [path |-> endpoints_to_try[e].url.path, query |-> "limit=1000&offset={offset}"]
    ELSE endpoints_to_try[e].url

NextOffset_ByLimit(at, page) == at + Limit

\* offset += len(threads)
NextOffset(at, page) == at + Len(page)

Min(a, b) == IF a < b THEN a ELSE b

\* environment: the pages the server may answer with at an offset: any number
\* of its threads from there on, at least one while some are left, at most Limit
ServerPages(at) ==
    LET left == Len(srv_threads) - at
    IN IF left <= 0 THEN {<<>>}
       ELSE {SubSeq(srv_threads, at + 1, at + k) : k \in 1..Min(left, Limit)}

\* interactive_clean: the rest of one pass of the pagination loop, the outcome
\* of the page request
fetch_page ==
    /\ pc = "page_wait"
    /\ ResponseArrives
    /\ \/ \E page \in ServerPages(offset) :
            /\ session_log' = Append(session_log,
                   FetchRequest(working_endpoint, PageUrl(working_endpoint, offset),
                                offset, "ok", page))
            /\ IF Len(page) = 0
               THEN pc' = "fetched" /\ UNCHANGED <<all_threads, offset>>
               ELSE /\ all_threads' = all_threads \o page
                    /\ offset' = NextOffset(offset, page)
                    /\ pc' = "paginate"
            /\ UNCHANGED <<exit_code, error>>
       \/ \E outcome \in {"fail", "raise"} :
            /\ session_log' = Append(session_log,
                   FetchRequest(working_endpoint, PageUrl(working_endpoint, offset),
                                offset, outcome, <<>>))
            /\ Abort(IF outcome = "fail" THEN "Search request failed" ELSE "ClientError")
            /\ UNCHANGED <<all_threads, offset>>
    /\ UNCHANGED <<envVars, answer, ep, working_endpoint, categories, now, cutoff_time,
                   threads_to_delete, start_index, deleteVars>>

\* interactive_clean after the session is closed: nothing found ends the run,
\* otherwise the threads are categorized and the main menu is shown
start_selection ==
    /\ pc = "fetched"
    /\ session_log' = <<>>
    /\ IF Len(all_threads) = 0
       THEN pc' = "exit" /\ exit_code' = 0 /\ UNCHANGED categories
       ELSE /\ categories' = categorize_threads(all_threads)
            /\ pc' = "main"
            /\ UNCHANGED exit_code
    /\ UNCHANGED <<envVars, answer, ep, working_endpoint, offset, all_threads, now,
                   in_flight,
                   cutoff_time, threads_to_delete, start_index, deleteVars, error>>

\* ------------------------------------------------------------ initial state
NoAnswer == "<no input yet>"

Pending == [kind |-> "pending"]

\* what the program's variables hold before interactive_clean has run
ProgramStart ==
    /\ exit_code = -1 /\ error = "" /\ answer = NoAnswer
    /\ ep = 1 /\ working_endpoint = 0 /\ offset = 0
    /\ session_log = <<>>
    /\ categories = EmptyCategories(<<>>)
    /\ now = 0 /\ cutoff_time = 0
    /\ threads_to_delete = <<>> /\ start_index = 0
    /\ selection = Pending
    /\ deleted = 0 /\ failed = 0 /\ total_deleted = -1
    /\ in_flight = 0

\* -------------------------------------------------------------- environment
MaxThreads == 8

\* the pool the server's threads are taken from: thread i of the pool
PoolStatus(i) ==
    CASE i = 2 -> <<"completed">> [] i = 3 -> <<>> [] OTHER -> <<"idle">>

PoolRuns(i) ==
    CASE i = 1 -> <<0>> [] i = 2 -> <<2>> [] i = 3 -> <<1>> [] i = 4 -> <<20>>
      [] i = 5 -> <<>> [] i = 6 -> <<7>> [] OTHER -> <<10 + i>>

PoolGraph(i) ==
    CASE i = 1 -> <<"g1">> [] i = 2 -> <<>> [] i = 3 -> <<"g2">> [] i = 4 -> <<"">>
      [] OTHER -> <<"g1">>

\* 1705276799 is 2024-01-14T23:59:59Z and 1705276801 is 2024-01-15T00:00:01Z
PoolCreatedAt(i) ==
    CASE i = 1 -> <<[fmt |-> "utc", t |-> 1705276799]>>
      [] i = 2 -> <<[fmt |-> "utc", t |-> 1705276801]>>
      [] i = 3 -> <<[fmt |-> "utc", t |-> Now0 - Hour]>>
      [] i = 4 -> <<[fmt |-> "invalid", t |-> 0]>>
      [] i = 5 -> <<[fmt |-> "utc", t |-> Now0 - Week - 1]>>
      [] i = 6 -> <<>>
      [] i = 7 -> <<[fmt |-> "utc", t |-> Now0 + ClockSpan + 1]>>
      [] OTHER -> <<[fmt |-> "utc", t |-> Now0 - i]>>

PoolThread(i) ==
    [thread_id |-> i, created_at |-> PoolCreatedAt(i), status |-> PoolStatus(i),
     runs |-> PoolRuns(i), graph_id |-> PoolGraph(i)]

\* what the server may hold: the first n threads of the pool, n = 0..MaxThreads
Datasets == {[i \in 1..n |-> PoolThread(i)] : n \in 0..MaxThreads}

TzOffsets == {0, Hour}

Init ==
    /\ pc = "probe"
    /\ srv_threads \in Datasets
    /\ tz_offset \in TzOffsets
    /\ all_threads = <<>>
    /\ ProgramStart

Next ==
    \/ send_request
    \/ probe_endpoint
    \/ fetch_page
    \/ start_selection
    \/ select_threads_to_delete
    \/ preview_all_threads_page
    \/ preview_all_threads_end
    \/ select_by_time
    \/ select_by_time_review
    \/ select_custom_date_range
    \/ select_custom_date_range_empty
    \/ select_custom_date_range_review
    \/ review_threads_page
    \/ review_threads_end
    \/ confirm_delete_all_menu
    \/ confirm_delete_all_phrase
    \/ confirm_delete_all_final
    \/ select_by_status
    \/ select_by_status_review
    \/ select_by_runs
    \/ select_by_runs_review
    \/ select_by_graph
    \/ select_by_graph_review
    \/ delete_threads_confirm
    \/ delete_threads_loop

Spec == Init /\ [][Next]_vars

InterruptStatuses_Fatal == {1}

\* the exit status after Ctrl-C: 0 when KeyboardInterrupt is raised inside
\* main's coroutine (a prompt is being read) and main's handler catches it; the
\* interpreter's own 130 when it is raised in the event loop of asyncio.run (a
\* request is in flight, or the runner cancels the task), beyond that handler
InterruptStatuses == {0, 130}

\* environment: the operator interrupts the process, at any point of the run;
\* the process and its connections are gone
operator_interrupt ==
    /\ pc # "exit"
    /\ \E status \in InterruptStatuses : exit_code' = status
    /\ error' = "KeyboardInterrupt"
    /\ pc' = "exit"
    /\ NoLocals
    /\ in_flight' = 0
    /\ UNCHANGED <<envVars, fetchVars, deleteVars, answer, categories>>

\* the run with an operator who may interrupt it
SpecInterrupt == Init /\ [][Next \/ operator_interrupt]_vars

\* discovery and pagination on their own; the pagination loop is a "while" of
\* the one thread of control, so it keeps taking its next pass
SpecFetch ==
    /\ Init
    /\ [][send_request \/ probe_endpoint \/ fetch_page]_vars
    /\ WF_vars(send_request) /\ WF_vars(fetch_page)

\* ------------------------------------------- categorize_threads on its own
\* categorize_threads is a pure function: SpecCategorize applies it to every
\* list of at most MaxLen threads over the shapes below.
NoCreatedAt == <<>>

MkThread(id, shape) ==
    [thread_id |-> id, created_at |-> shape.created_at, status |-> shape.status,
     runs |-> shape.runs, graph_id |-> shape.graph_id]

ThreadListsOver(shapes) ==
    UNION {{[i \in 1..n |-> MkThread(i, f[i])] : f \in [1..n -> shapes]} : n \in 0..MaxLen}

CatShapes ==
    [created_at : {NoCreatedAt},
     status : {<<>>, <<"idle">>, <<"completed">>, <<"unknown">>},
     runs : {<<>>, <<1>>},
     graph_id : {<<>>, <<"">>, <<"g1">>, <<"g2">>}]

RunShapes ==
    [created_at : {NoCreatedAt}, status : {<<"idle">>},
     runs : {<<n>> : n \in 0..MaxRuns}, graph_id : {<<>>}]

InitCategorize ==
    /\ pc = "call_categorize"
    /\ all_threads \in ThreadListsOver(CatShapes) \cup ThreadListsOver(RunShapes)
    /\ Len(all_threads) > 0
    /\ srv_threads = all_threads
    /\ tz_offset = 0
    /\ ProgramStart

CallCategorize ==
    /\ pc = "call_categorize"
    /\ categories' = categorize_threads(all_threads)
    /\ pc' = "categorized"
    /\ UNCHANGED <<answer, now, cutoff_time, threads_to_delete, start_index>>
    /\ UNCHANGED <<envVars, fetchVars, deleteVars, exitVars, in_flight>>

SpecCategorize == InitCategorize /\ [][CallCategorize]_vars

\* ----------------------------------------------- select_by_time on its own
\* SpecTime puts the program at the time menu with every list of at most
\* MaxLen threads whose creation stamps sit on and around the window ends.
Stamps ==
    {0 - 1, 0, Now0 - Month - 1, Now0 - Month, Now0 - Week, Now0 - Week + 1,
     Now0 - Hour - 1, Now0 - Hour, Now0 - Hour + 1, Now0, Now0 + 1, Now0 + ClockSpan + 1}

TimeShapes ==
    [created_at : {<<>>, <<[fmt |-> "empty", t |-> 0]>>, <<[fmt |-> "invalid", t |-> 0]>>}
                    \cup {<<[fmt |-> "utc", t |-> t]>> : t \in Stamps},
     status : {<<"idle">>}, runs : {<<0>>}, graph_id : {<<>>}]

InitTime ==
    /\ pc = "by_time"
    /\ all_threads \in ThreadListsOver(TimeShapes)
    /\ Len(all_threads) > 0
    /\ srv_threads = all_threads
    /\ tz_offset = 0
    /\ exit_code = -1 /\ error = "" /\ answer = "1"
    /\ ep = 1 /\ working_endpoint = 1 /\ offset = Len(all_threads)
    /\ session_log = <<>>
    /\ categories = categorize_threads(all_threads)
    /\ now = 0 /\ cutoff_time = 0
    /\ threads_to_delete = <<>> /\ start_index = 0
    /\ selection = Pending
    /\ deleted = 0 /\ failed = 0 /\ total_deleted = -1
    /\ in_flight = 0

SpecTime == InitTime /\ [][select_by_time]_vars

\* ------------------------------------- select_custom_date_range on its own
\* SpecCustom puts the program at the cutoff prompt with every list of at most
\* MaxLen threads whose creation stamps sit on and around the cutoffs the
\* operator's dates give: 1705276800 is 2024-01-15T00:00:00Z.
CustomStamps ==
    {1705276800 - Hour - 1, 1705276800 - Hour, 1705276799, 1705276800, 1705276801,
     Now0, Now0 + ClockSpan + 1}

CustomShapes ==
    [created_at : {<<>>, <<[fmt |-> "invalid", t |-> 0]>>}
                    \cup {<<[fmt |-> "utc", t |-> t]>> : t \in CustomStamps},
     status : {<<"idle">>}, runs : {<<0>>}, graph_id : {<<>>}]

InitCustom ==
    /\ pc = "custom_range"
    /\ all_threads \in ThreadListsOver(CustomShapes)
    /\ Len(all_threads) > 0
    /\ srv_threads = all_threads
    /\ tz_offset \in TzOffsets
    /\ exit_code = -1 /\ error = "" /\ answer = "5"
    /\ ep = 1 /\ working_endpoint = 1 /\ offset = Len(all_threads)
    /\ session_log = <<>>
    /\ categories = categorize_threads(all_threads)
    /\ now = 0 /\ cutoff_time = 0
    /\ threads_to_delete = <<>> /\ start_index = 0
    /\ selection = Pending
    /\ deleted = 0 /\ failed = 0 /\ total_deleted = -1
    /\ in_flight = 0

SpecCustom == InitCustom /\ [][select_custom_date_range]_vars

\* ------------------------------------------------ select_by_runs on its own
\* SpecRuns puts the program at the run-count menu with every list of at most
\* MaxMenuLen threads over run counts on the bounds of the buckets.
MaxMenuLen == 3

RunMenuShapes ==
    [created_at : {NoCreatedAt}, status : {<<"idle">>},
     runs : {<<>>, <<0>>, <<1>>, <<3>>, <<5>>, <<9>>, <<10>>, <<20>>}, graph_id : {<<>>}]

InitRuns ==
    /\ pc = "by_runs"
    /\ all_threads \in UNION {{[i \in 1..n |-> MkThread(i, f[i])] :
                                 f \in [1..n -> RunMenuShapes]} : n \in 1..MaxMenuLen}
    /\ srv_threads = all_threads
    /\ tz_offset = 0
    /\ exit_code = -1 /\ error = "" /\ answer = "3"
    /\ ep = 1 /\ working_endpoint = 1 /\ offset = Len(all_threads)
    /\ session_log = <<>>
    /\ categories = categorize_threads(all_threads)
    /\ now = 0 /\ cutoff_time = 0
    /\ threads_to_delete = <<>> /\ start_index = 0
    /\ selection = Pending
    /\ deleted = 0 /\ failed = 0 /\ total_deleted = -1
    /\ in_flight = 0

SpecRuns == InitRuns /\ [][select_by_runs]_vars

\* ------------------------------------------------ the two time filters together
\* SpecTimeFilters puts the program at the time menu, from where option 5 leads
\* to the custom cutoff prompt, with every list of at most MaxLen threads whose
\* created_at is missing, empty, unparseable, before or at the epoch, at the
\* first clock reading or later than the last.
EdgeShapes ==
    [created_at : {<<>>, <<[fmt |-> "empty", t |-> 0]>>, <<[fmt |-> "invalid", t |-> 0]>>}
                    \cup {<<[fmt |-> "utc", t |-> t]>> :
                             t \in {0 - 1, 0, Now0, Now0 + ClockSpan + 1}},
     status : {<<"idle">>}, runs : {<<0>>}, graph_id : {<<>>}]

InitTimeFilters ==
    /\ pc = "by_time"
    /\ all_threads \in ThreadListsOver(EdgeShapes)
    /\ Len(all_threads) > 0
    /\ srv_threads = all_threads
    /\ tz_offset \in TzOffsets
    /\ exit_code = -1 /\ error = "" /\ answer = "1"
    /\ ep = 1 /\ working_endpoint = 1 /\ offset = Len(all_threads)
    /\ session_log = <<>>
    /\ categories = categorize_threads(all_threads)
    /\ now = 0 /\ cutoff_time = 0
    /\ threads_to_delete = <<>> /\ start_index = 0
    /\ selection = Pending
    /\ deleted = 0 /\ failed = 0 /\ total_deleted = -1
    /\ in_flight = 0

SpecTimeFilters ==
    InitTimeFilters /\ [][select_by_time \/ select_custom_date_range]_vars

\* ------------------------------------------------------------------ claims
\* the DELETE requests issued so far
Deletes == SelectSeq(session_log, LAMBDA r : r.method = "DELETE")

\* "yes" in any mix of cases, among the lines the operator may type
YesForms == {"yes", "YES"}

HasThreads(sel) == sel.kind = "list" /\ Len(sel.threads) > 0

\* C1: a DELETE request is issued only when the selection handed to
\* delete_threads is not empty and the 'Are you sure' prompt was answered "yes"
\* in some mix of cases; after any other answer the run has ended with no DELETE
\* issued and a deleted count of 0.
C1_NoDeleteWithoutYes ==
    /\ Len(Deletes) > 0 => HasThreads(selection) /\ answer \in YesForms
    /\ (HasThreads(selection) /\ pc # "delete_confirm" /\ answer \notin YesForms)
         => /\ pc = "exit"
            /\ Len(Deletes) = 0
            /\ deleted = 0
            /\ total_deleted = 0

C1_Witness ==
    /\ pc = "deleting"
    /\ answer = "YES"
    /\ Len(Deletes) = 1
    /\ Len(selection.threads) > 1

\* the final confirmation was given: the loop is running, or has run
Confirmed ==
    /\ HasThreads(selection)
    /\ pc \in {"deleting", "delete_wait", "exit"}
    /\ answer \in YesForms

\* C2: once the confirmation is given, the DELETEs are attempted one per
\* resource in the selection's order, and when the step has ended every resource
\* of the selection has had its attempt, whatever the earlier attempts came to.
C2_OneDeletePerResourceInOrder ==
    Confirmed =>
        /\ Len(session_log) <= Len(selection.threads)
        /\ \A i \in 1..Len(session_log) :
              /\ session_log[i].method = "DELETE"
              /\ session_log[i].arg = selection.threads[i].thread_id
        /\ pc = "exit" => Len(session_log) = Len(selection.threads)

C2_Witness ==
    /\ pc = "exit"
    /\ Confirmed
    /\ Len(selection.threads) = 5
    /\ Len(session_log) = 5
    /\ session_log[3].result = "raise"
    /\ session_log[5].result = "ok"

CountResults(results) ==
    Cardinality({i \in 1..Len(session_log) : session_log[i].result \in results})

\* C3: the success count is the number of DELETE calls that returned a success
\* status, the failure count the number that returned another status or raised,
\* and when the loop has finished the two add up to the size of the selection.
C3_Tally ==
    Confirmed =>
        /\ deleted = CountResults({"ok"})
        /\ failed = CountResults({"fail", "raise"})
        /\ pc = "exit" => /\ deleted + failed = Len(selection.threads)
                          /\ total_deleted = deleted

\* 5 selected, the 3rd call raises, the others succeed: 4 deleted, 1 failed
C3_Witness ==
    /\ pc = "exit"
    /\ Confirmed
    /\ Len(selection.threads) = 5
    /\ [i \in 1..5 |-> session_log[i].result] = <<"ok", "ok", "raise", "ok", "ok">>
    /\ deleted = 4
    /\ failed = 1

ConfirmDeleteAllStates == {"cda_menu", "cda_phrase", "cda_final"}

\* C4: confirm_delete_all goes from its menu to the phrase prompt only on "1",
\* from there to the final prompt only on the exact line "DELETE ALL", and
\* returns only from the final prompt on "yes", and then the whole resource set;
\* any other line at any of the three prompts leads to the main menu with no
\* selection made.
C4_ThreeStepConfirmation ==
    [][/\ pc' = "cda_phrase" => pc = "cda_menu" /\ answer' = "1"
       /\ pc' = "cda_final" => pc = "cda_phrase" /\ answer' = "DELETE ALL"
       /\ (pc \in ConfirmDeleteAllStates /\ selection' # selection)
            => /\ pc = "cda_final"
               /\ answer' \in YesForms
               /\ selection' = [kind |-> "list", threads |-> all_threads]
       /\ (\/ pc = "cda_menu" /\ answer' # "1"
           \/ pc = "cda_phrase" /\ answer' # "DELETE ALL"
           \/ pc = "cda_final" /\ answer' \notin YesForms)
            => /\ pc' = "main"
               /\ selection' = [kind |-> "pending"]
               /\ threads_to_delete' = <<>>]_vars

\* the whole set of at least 4 pool threads is selected (no filter yields it)
\* and the last line typed was "yes"
C4_Witness ==
    /\ pc = "delete_confirm"
    /\ Len(all_threads) >= 4
    /\ selection = [kind |-> "list", threads |-> all_threads]
    /\ answer = "yes"

\* C5 as stated: whatever the operator types at the menus, the run does not end
\* on the fatal-error path (exit status 1).
C5_InputNeverFatal ==
    answer # NoAnswer => exit_code # 1

MenuStates ==
    {"main", "preview_page", "preview_end", "by_time", "time_review", "custom_range",
     "custom_empty", "custom_review", "review_page", "review_end", "cda_menu",
     "cda_phrase", "cda_final", "by_status", "status_review", "by_runs", "runs_review",
     "by_graph", "graph_review"}

\* C6 as stated: the state machine is left only with a selection that is a list
\* (possibly empty), or with none, and with none only from the main menu.
C6_TwoWaysOut ==
    [][(pc \in MenuStates /\ pc' \notin MenuStates)
         => \/ selection'.kind = "list"
            \/ selection'.kind = "none" /\ pc = "main"]_vars

\* the number of places (bucket, position) of dict d that hold thread
Places(d, thread) ==
    Cardinality({p \in UNION {{<<i, j>> : j \in 1..Len(d[i].val)} : i \in 1..Len(d)} :
                    d[p[1]].val[p[2]] = thread})

BucketSizes(d) == [i \in 1..Len(d) |-> Len(d[i].val)]

RECURSIVE SumSeq(_)
SumSeq(q) == IF q = <<>> THEN 0 ELSE Head(q) + SumSeq(Tail(q))

Members(d) == UNION {{d[i].val[j] : j \in 1..Len(d[i].val)} : i \in 1..Len(d)}

ThreadSet(threads) == {threads[i] : i \in 1..Len(threads)}

\* C7: after categorization every resource of the set is in exactly one status
\* bucket and exactly one run-count bucket, and the buckets of either partition
\* hold nothing but resources of the set (exhaustive and pairwise disjoint).
C7_StatusAndRunsPartition ==
    pc = "categorized" =>
        /\ \A k \in 1..Len(all_threads) :
              /\ Places(categories.byStatus, all_threads[k]) = 1
              /\ Places(categories.byRuns, all_threads[k]) = 1
        /\ Members(categories.byStatus) = ThreadSet(all_threads)
        /\ Members(categories.byRuns) = ThreadSet(all_threads)
        /\ SumSeq(BucketSizes(categories.byStatus)) = Len(all_threads)
        /\ SumSeq(BucketSizes(categories.byRuns)) = Len(all_threads)

C7_Witness ==
    /\ pc = "categorized"
    /\ Len(all_threads) = 2
    /\ Len(categories.byStatus) = 2
    /\ Len(categories.byRuns) = 1
    /\ all_threads[1].status = <<>>

FieldPresent(thread) == thread.graph_id # <<>>

\* C8 as stated: the graph partition holds only resources with a graph
\* identifier, each in exactly one graph bucket, and the bucket sizes sum to the
\* number of resources whose graph identifier field is present.
C8_GraphPartition_AsStated ==
    pc = "categorized" =>
        /\ \A t \in Members(categories.byGraph) : FieldPresent(t)
        /\ \A k \in 1..Len(all_threads) :
              FieldPresent(all_threads[k]) => Places(categories.byGraph, all_threads[k]) = 1
        /\ SumSeq(BucketSizes(categories.byGraph))
             = Cardinality({k \in 1..Len(all_threads) : FieldPresent(all_threads[k])})

NonEmptyGraphId(thread) == thread.graph_id \notin {<<>>, <<"">>}

\* C8 amended: the same with "graph identifier present" read as "present and not
\* the empty string": the graph partition holds exactly the resources with a
\* non-empty graph identifier, each once, under its own identifier.
C8_GraphPartition ==
    pc = "categorized" =>
        /\ \A t \in Members(categories.byGraph) : NonEmptyGraphId(t)
        /\ \A k \in 1..Len(all_threads) :
              Places(categories.byGraph, all_threads[k])
                = IF NonEmptyGraphId(all_threads[k]) THEN 1 ELSE 0
        /\ SumSeq(BucketSizes(categories.byGraph))
             = Cardinality({k \in 1..Len(all_threads) : NonEmptyGraphId(all_threads[k])})

C8_Witness ==
    /\ pc = "categorized"
    /\ Len(all_threads) = 2
    /\ all_threads[1].graph_id = <<"">>
    /\ all_threads[2].graph_id = <<"g1">>
    /\ Len(categories.byGraph) = 1

\* the reference mapping of C9, written out
ReferenceBucket(n) ==
    CASE n = 0 -> "0 runs"
      [] n = 1 -> "1 run"
      [] n = 2 -> "2 runs"
      [] n = 3 -> "3 runs"
      [] n = 4 -> "4 runs"
      [] n \in 5..9 -> "5-9 runs"
      [] n \in 10..19 -> "10-19 runs"
      [] n >= 20 -> "20+ runs"

\* C9: every resource is filed under the run-count bucket the reference mapping
\* gives for its run count (0, 1, 2..4 by exact count, 5-9, 10-19, 20+).
C9_RunBuckets ==
    pc = "categorized" =>
        \A k \in 1..Len(all_threads) :
            \E i \in 1..Len(categories.byRuns) :
                /\ categories.byRuns[i].key = ReferenceBucket(RunCount(all_threads[k]))
                /\ \E j \in 1..Len(categories.byRuns[i].val) :
                      categories.byRuns[i].val[j] = all_threads[k]

C9_Witness ==
    /\ pc = "categorized"
    /\ Len(all_threads) = 2
    /\ all_threads[1].runs = <<19>>
    /\ all_threads[2].runs = <<20>>
    /\ DictKeys(categories.byRuns) = <<"10-19 runs", "20+ runs">>

\* the resources of threads created within [start_time, end_time], in order
CreatedWithin(threads, start_time, end_time) ==
    SelectSeq(threads,
              LAMBDA th : /\ th.created_at # <<>>
                          /\ th.created_at[1].fmt = "utc"
                          /\ start_time <= th.created_at[1].t
                          /\ th.created_at[1].t <= end_time)

\* C10: choosing last hour, last week, last month or all time at the time menu
\* filters exactly the resources created at a time t with start <= t <= now,
\* where start is now - 1 hour, now - 7 days, now - 30 days or 0.
C10_TimeWindow ==
    [][pc = "by_time" =>
          /\ answer' = "1" =>
                threads_to_delete' = CreatedWithin(all_threads, now' - 3600, now')
          /\ answer' = "2" =>
                threads_to_delete' = CreatedWithin(all_threads, now' - 604800, now')
          /\ answer' = "3" =>
                threads_to_delete' = CreatedWithin(all_threads, now' - 2592000, now')
          /\ answer' = "4" =>
                threads_to_delete' = CreatedWithin(all_threads, 0, now')]_vars

\* the last-hour filter has kept a resource created exactly at now - 1 hour and
\* dropped another one
C10_Witness ==
    /\ pc = "time_review"
    /\ answer = "1"
    /\ Len(all_threads) = 2
    /\ Len(threads_to_delete) = 1
    /\ threads_to_delete[1].created_at[1].t = now - 3600

\* a thread with a creation time, and that time strictly less than cutoff
CreatedStrictlyBefore(thread, cutoff) ==
    /\ thread.created_at # <<>>
    /\ thread.created_at[1].fmt = "utc"
    /\ thread.created_at[1].t < cutoff

\* the cutoff prompt has accepted the line: the filter has run
CutoffAccepted == pc \in {"custom_empty", "custom_review"}

\* C11: when the cutoff prompt accepts a cutoff, the filter result is exactly
\* the threads, in the order of the resource set, whose creation time is
\* strictly less than the cutoff; a thread created at the cutoff is left out.
C11_StrictCutoff ==
    [][(pc = "custom_range" /\ CutoffAccepted')
         => threads_to_delete' =
              SelectSeq(all_threads,
                        LAMBDA th : CreatedStrictlyBefore(th, cutoff_time'))]_vars

\* one thread created a second before the cutoff and one created at it
C11_Witness ==
    /\ pc = "custom_review"
    /\ Len(all_threads) = 2
    /\ all_threads[1].created_at = <<[fmt |-> "utc", t |-> cutoff_time - 1]>>
    /\ all_threads[2].created_at = <<[fmt |-> "utc", t |-> cutoff_time]>>
    /\ threads_to_delete = <<all_threads[1]>>

\* C12 as stated: for the date-only cutoff 2024-01-15 a thread created at
\* 2024-01-14T23:59:59Z is selected and a thread created at
\* 2024-01-15T00:00:01Z is not, whatever the machine's time zone.
C12_DateOnlyCutoffIsUtc ==
    [][(pc = "custom_range" /\ answer' = "2024-01-15" /\ CutoffAccepted')
         => \A i \in 1..Len(all_threads) :
              LET th == all_threads[i]
                  chosen == \E j \in 1..Len(threads_to_delete') :
                                threads_to_delete'[j] = th
              IN /\ th.created_at = <<[fmt |-> "utc", t |-> 1705276799]>> => chosen
                 /\ th.created_at = <<[fmt |-> "utc", t |-> 1705276801]>> => ~chosen]_vars

\* C13: a line that does not parse, or parses to a cutoff later than the clock
\* reading, filters nothing and leads back to the same cutoff prompt; the prompt
\* is left only with a cutoff that parsed and is not later than the clock reading.
C13_RejectedCutoffNeverFilters ==
    [][pc = "custom_range" =>
         LET parsed == NaiveDatetime(answer') IN
         /\ (parsed = <<>> \/ LocalTimestamp(parsed[1]) > now')
              => /\ pc' = "custom_range"
                 /\ threads_to_delete' = <<>>
                 /\ cutoff_time' = 0
                 /\ selection' = selection
         /\ pc' # "custom_range"
              => /\ CutoffAccepted'
                 /\ parsed # <<>>
                 /\ cutoff_time' = LocalTimestamp(parsed[1])
                 /\ cutoff_time' <= now']_vars

\* a future cutoff was typed and the program is back at the cutoff prompt
C13_Witness ==
    /\ pc = "custom_range"
    /\ answer = "2024-01-15 14:30"
    /\ now \in ClockValues
    /\ threads_to_delete = <<>>
    /\ \E i \in 1..Len(all_threads) : CreatedStrictlyBefore(all_threads[i], Now0)

\* the requests of discovery and pagination made so far
FetchLog == SelectSeq(session_log, LAMBDA r : r.method # "DELETE")

\* the position in FetchLog of the first request that got a success status
FirstOk ==
    LET oks == {i \in 1..Len(FetchLog) : FetchLog[i].result = "ok"}
    IN IF oks = {} THEN 0 ELSE CHOOSE i \in oks : \A j \in oks : i <= j

\* the pagination requests: those after the probe that succeeded
PageLog == IF FirstOk = 0 THEN <<>> ELSE SubSeq(FetchLog, FirstOk + 1, Len(FetchLog))

RECURSIVE ConcatBodies(_, _)
ConcatBodies(log, n) == IF n = 0 THEN <<>> ELSE ConcatBodies(log, n - 1) \o log[n].body

PaginationExact ==
    /\ \A i \in 1..Len(PageLog) :
          /\ PageLog[i].arg = Len(ConcatBodies(PageLog, i - 1))
          /\ i < Len(PageLog) => PageLog[i].result = "ok" /\ Len(PageLog[i].body) > 0
    /\ all_threads = ConcatBodies(PageLog, Len(PageLog))
    /\ pc = "fetched" => /\ Len(PageLog) > 0
                         /\ PageLog[Len(PageLog)].result = "ok"
                         /\ PageLog[Len(PageLog)].body = <<>>
                         /\ all_threads = srv_threads

\* C14: every page is requested at an offset equal to the number of threads
\* accumulated so far, no page is requested after an empty one, the accumulated
\* set is the concatenation of the pages in the order received (all the
\* server's threads once the loop has stopped), and the loop does stop.
C14_PaginationExactAndTerminates ==
    /\ []PaginationExact
    /\ (pc \in {"paginate", "page_wait"}) ~> (pc \in {"fetched", "exit"})

\* three pages that are not empty, then the empty one
C14_Witness ==
    /\ pc = "fetched"
    /\ Len(PageLog) = 4
    /\ Len(PageLog[1].body) = 1
    /\ Len(PageLog[2].body) > 1
    /\ Len(all_threads) >= 6

\* C15: the candidates are probed in their fixed order, each at its own url;
\* the first that gets a success status is the working endpoint, none is
\* probed after it, and every later request of the session has its method and
\* path.
C15_FirstWorkingEndpointAdopted ==
    LET probes == IF FirstOk = 0 THEN Len(FetchLog) ELSE FirstOk
    IN /\ probes <= Len(endpoints_to_try)
       /\ \A i \in 1..probes :
             /\ FetchLog[i].method = endpoints_to_try[i].method
             /\ FetchLog[i].url = endpoints_to_try[i].url
       /\ (FirstOk = 0 /\ pc \in {"probe", "probe_wait", "paginate", "page_wait", "fetched"})
            => working_endpoint = 0
       /\ FirstOk # 0 =>
             /\ working_endpoint = FirstOk
             /\ \A i \in (FirstOk + 1)..Len(FetchLog) :
                   /\ FetchLog[i].method = endpoints_to_try[FirstOk].method
                   /\ FetchLog[i].url.path = endpoints_to_try[FirstOk].url.path

\* the first candidate failed, the second was adopted and served two pages
C15_Witness ==
    /\ pc = "paginate"
    /\ FirstOk = 2
    /\ Len(FetchLog) = 4
    /\ FetchLog[4].arg > 0
    /\ FetchLog[4].url.query # ""

NoEndpointWorked ==
    /\ Len(FetchLog) = Len(endpoints_to_try)
    /\ FirstOk = 0

PageFetchFailed == \E i \in 1..Len(PageLog) : PageLog[i].result # "ok"

\* C16: when no candidate got a success status, or a pagination request did
\* not, the run has ended with exit status 1, no prompt was ever shown, nothing
\* was selected and no DELETE was issued.
C16_FetchFailureAborts ==
    (NoEndpointWorked \/ PageFetchFailed)
        => /\ pc = "exit"
           /\ exit_code = 1
           /\ answer = NoAnswer
           /\ selection = Pending
           /\ Len(Deletes) = 0

\* the second page request failed after a first page had been received
C16_Witness ==
    /\ pc = "exit"
    /\ Len(PageLog) = 2
    /\ PageLog[2].result = "fail"
    /\ Len(all_threads) > 0

\* C17: a run that reached the DELETE loop and finished it has exit status 0,
\* whether none, some or all of its DELETE calls failed.
C17_DeleteFailuresKeepExitStatus ==
    (Confirmed /\ pc = "exit")
        => /\ exit_code = 0
           /\ error = ""
           /\ total_deleted = deleted

\* three selected, every DELETE failed, by status and by exception
C17_Witness ==
    /\ pc = "exit"
    /\ Confirmed
    /\ Len(selection.threads) = 3
    /\ deleted = 0
    /\ failed = 3
    /\ \E i, j \in 1..3 : session_log[i].result = "fail" /\ session_log[j].result = "raise"
    /\ exit_code = 0

Interrupted == error = "KeyboardInterrupt"

\* the run ended with no exception: nothing found, nothing selected, the
\* operator left or declined, or the DELETE loop finished
CompletedNormally == pc = "exit" /\ error = ""

\* the run ended on an exception other than the operator's interrupt
EndedOnException == pc = "exit" /\ error # "" /\ ~Interrupted

\* C18 as stated: status 0 on normal completion, 1 on a fatal discovery
\* failure, an unhandled exception or an operator interrupt.
C18_ExitStatus_AsStated ==
    /\ CompletedNormally => exit_code = 0
    /\ EndedOnException => exit_code = 1
    /\ (pc = "exit" /\ Interrupted) => exit_code = 1

\* C18: status 0 on every normal completion, 1 on a fatal discovery failure and
\* on an unhandled exception; an operator interrupt never gives 1: it gives 0
\* where main's handler catches it and the interpreter's 130 otherwise.
C18_ExitStatus ==
    /\ CompletedNormally => exit_code = 0
    /\ EndedOnException => exit_code = 1
    /\ (pc = "exit" /\ Interrupted) => exit_code \in {0, 130}
    /\ pc # "exit" => exit_code = -1

\* the operator interrupted the 'Are you sure' prompt: status 0
C18_Witness ==
    /\ pc = "exit"
    /\ Interrupted
    /\ exit_code = 0
    /\ HasThreads(selection)
    /\ Len(Deletes) = 0

PreviewStates == {"preview_page", "preview_end"}

\* C19: from Preview every line leads to the next preview page or to the main
\* menu, and from the last page to the main menu; no selection is made, and at
\* the main menu the category index is that of the whole resource set and no
\* subset is held.
C19_PreviewSelectsNothing ==
    [][(pc \in PreviewStates) =>
         /\ pc' \in PreviewStates \cup {"main"}
         /\ pc = "preview_end" => pc' = "main"
         /\ pc' \in PreviewStates => start_index' = start_index + threads_per_page
         /\ selection' = Pending
         /\ threads_to_delete' = <<>>
         /\ pc' = "main" => (/\ categories' = categorize_threads(all_threads)
                              /\ start_index' = 0)]_vars

\* the preview has gone from its first page to its last
C19_Witness ==
    /\ pc = "preview_end"
    /\ start_index = threads_per_page
    /\ Len(all_threads) > threads_per_page
    /\ selection = Pending

ReviewCancelled ==
    \/ pc = "review_page" /\ answer' = "3"
    \/ pc = "review_end" /\ answer' = "2"

\* C20: cancelling from Review, at a page prompt or after the last page, leads
\* to the main menu with the category index of the whole resource set; the
\* subset and every other local of the filter and of Review are dropped, and
\* nothing is selected.
C20_CancelReviewGoesToMain ==
    [][ReviewCancelled =>
         /\ pc' = "main"
         /\ categories' = categorize_threads(all_threads)
         /\ threads_to_delete' = <<>>
         /\ start_index' = 0 /\ now' = 0 /\ cutoff_time' = 0
         /\ selection' = Pending]_vars

\* Review holds a subset of more than a page that is not the whole set, at
\* the prompt after its last page
C20_Witness ==
    /\ pc = "review_end"
    /\ start_index = threads_per_page
    /\ Len(threads_to_delete) > threads_per_page
    /\ Len(threads_to_delete) < Len(all_threads)

\* the lower numeric bound of the run-count bucket of a run count
LowerBound(n) ==
    CASE n \in 0..4 -> n
      [] n \in 5..9 -> 5
      [] n \in 10..19 -> 10
      [] OTHER -> 20

PresentBounds(threads) == {LowerBound(RunCount(threads[i])) : i \in 1..Len(threads)}

\* the k-th smallest of the lower bounds present
KthBound(threads, k) ==
    CHOOSE b \in PresentBounds(threads) :
        Cardinality({c \in PresentBounds(threads) : c < b}) = k - 1

\* C21: option k of the run-count menu, k from 1 to the number of buckets that
\* are not empty, yields exactly the threads (in the order of the resource set)
\* of the bucket with the k-th smallest lower bound, whatever the order in which
\* the buckets were created.
C21_RunsMenuSortedByLowerBound ==
    [][(/\ pc = "by_runs"
        /\ IsIntLiteral(answer')
        /\ IntOf(answer') \in 1..Cardinality(PresentBounds(all_threads)))
         => /\ pc' = "runs_review"
            /\ threads_to_delete' =
                 SelectSeq(all_threads,
                           LAMBDA th : LowerBound(RunCount(th)) =
                                         KthBound(all_threads, IntOf(answer')))]_vars

\* buckets created in the order 20+, 5-9, 0: option 1 is the 0 runs bucket
C21_Witness ==
    /\ pc = "runs_review"
    /\ answer = "1"
    /\ Len(all_threads) = 3
    /\ all_threads[1].runs = <<20>>
    /\ all_threads[2].runs = <<5>>
    /\ all_threads[3].runs = <<>>
    /\ threads_to_delete = <<all_threads[3]>>

\* the statuses of the threads in first-seen order ('unknown' for a thread
\* without one)
RECURSIVE FirstSeenStatuses(_, _)
FirstSeenStatuses(threads, n) ==
    IF n = 0 THEN <<>>
    ELSE LET before == FirstSeenStatuses(threads, n - 1)
             status == IF threads[n].status = <<>> THEN "unknown"
                       ELSE threads[n].status[1]
         IN IF \E i \in 1..Len(before) : before[i] = status THEN before
            ELSE Append(before, status)

StatusList == FirstSeenStatuses(all_threads, Len(all_threads))

\* C22: at every menu the status buckets are numbered in first-seen order of
\* the statuses; option k of the status menu yields the threads whose status is
\* the k-th first-seen one, and 'delete immediately' makes them the selection.
C22_StatusMenuFirstSeenOrder ==
    [][/\ (pc \in MenuStates) => DictKeys(categories.byStatus) = StatusList
       /\ (/\ pc = "by_status"
           /\ IsIntLiteral(answer')
           /\ IntOf(answer') \in 1..Len(StatusList))
            => /\ pc' = "status_review"
               /\ threads_to_delete' =
                    SelectSeq(all_threads,
                              LAMBDA th : Get(th.status, "unknown") =
                                            StatusList[IntOf(answer')])
       /\ (pc = "status_review" /\ answer' = "2")
            => /\ selection' = [kind |-> "list", threads |-> threads_to_delete]
               /\ pc' = "delete_confirm"]_vars

\* the set [idle, completed]: the selection is exactly the first thread
C22_Witness ==
    /\ pc = "delete_confirm"
    /\ answer = "2"
    /\ Len(all_threads) = 2
    /\ all_threads[1].status = <<"idle">>
    /\ all_threads[2].status = <<"completed">>
    /\ selection = [kind |-> "list", threads |-> <<all_threads[1]>>]

\* the number of buckets the menu at pc lists
ListedBuckets ==
    CASE pc = "by_status" -> Len(categories.byStatus)
      [] pc = "by_runs" -> Len(categories.byRuns)
      [] pc = "by_graph" -> Len(categories.byGraph)
      [] OTHER -> 0

\* C23: in the status, run-count and graph menus with n buckets, the number
\* n + 1 leads to the main menu with nothing selected; any other number outside
\* 1..n ends the state machine with an empty selection, and the run ends with
\* no DELETE and a deleted count of 0.
C23_OutOfRangeIndex ==
    [][(pc \in {"by_status", "by_runs", "by_graph"} /\ IsIntLiteral(answer'))
         => LET k == IntOf(answer') IN
            /\ k = ListedBuckets + 1 => pc' = "main" /\ selection' = Pending
            /\ (k < 1 \/ k > ListedBuckets + 1)
                 => /\ selection' = [kind |-> "list", threads |-> <<>>]
                    /\ pc' = "exit"
                    /\ exit_code' = 0
                    /\ total_deleted' = 0
                    /\ Len(Deletes') = 0]_vars

\* the run ended on the choice 0 with an empty selection
C23_Witness ==
    /\ pc = "exit"
    /\ answer = "0"
    /\ selection = [kind |-> "list", threads |-> <<>>]
    /\ total_deleted = 0
    /\ Len(all_threads) > 2

\* C24: no step of the menus or of the deletion changes the fetched resource
\* set, which is the server's at the fetch, and at every menu the category
\* index is the one computed from it.
C24_FetchedSetImmutable ==
    [][/\ (pc \in MenuStates \cup {"delete_confirm", "deleting", "delete_wait"})
            => all_threads' = all_threads
       /\ (pc \in MenuStates)
            => /\ all_threads = srv_threads
               /\ categories = categorize_threads(srv_threads)]_vars

\* back at the main menu after a review of a subset was cancelled
C24_Witness ==
    /\ pc = "main"
    /\ answer = "3"
    /\ Len(all_threads) > threads_per_page
    /\ threads_to_delete = <<>>
    /\ categories = categorize_threads(srv_threads)

RECURSIVE IsSubList(_, _)
IsSubList(sub, full) ==
    IF sub = <<>> THEN TRUE
    ELSE IF full = <<>> THEN FALSE
    ELSE IF Head(sub) = Head(full) THEN IsSubList(Tail(sub), Tail(full))
    ELSE IsSubList(sub, Tail(full))

\* C26: a selection that is a list is an order-preserving sub-list of the
\* fetched resource set, and the identifiers of the DELETE requests issued so
\* far are, in order, a sub-list of the identifiers of the fetched set.
C26_SelectionIsSubList ==
    /\ selection.kind = "list" => IsSubList(selection.threads, all_threads)
    /\ IsSubList([i \in 1..Len(Deletes) |-> Deletes[i].arg],
                 [i \in 1..Len(all_threads) |-> all_threads[i].thread_id])

\* a bucket of threads that are not neighbours in the fetched set, two of them
\* already sent their DELETE
C26_Witness ==
    /\ pc = "deleting"
    /\ Len(Deletes) = 2
    /\ Len(selection.threads) > 2
    /\ Len(selection.threads) < Len(all_threads)
    /\ selection.threads[2].thread_id > selection.threads[1].thread_id + 1

\* a line that is none of the listed options, at a prompt that follows a filter
\* result or the last page of Review
UnlistedLine ==
    \/ /\ pc \in {"time_review", "status_review", "runs_review", "graph_review"}
       /\ answer' \notin {"1", "2", "3"}
    \/ /\ pc = "custom_review"
       /\ answer' \notin {"1", "2", "3", "4"}
    \/ /\ pc = "review_end"
       /\ answer' \notin {"1", "2"}

\* C27: at those prompts any unlisted line accepts: the state machine ends with
\* the whole filtered subset, which is not empty, as the selection, and the
\* program is at the 'Are you sure' prompt of the delete step.
C27_UnlistedLineAccepts ==
    [][UnlistedLine
         => /\ Len(threads_to_delete) > 0
            /\ selection' = [kind |-> "list", threads |-> threads_to_delete]
            /\ pc' = "delete_confirm"]_vars

\* the empty line was typed after a filter that kept a part of the set
C27_Witness ==
    /\ pc = "delete_confirm"
    /\ answer = ""
    /\ Len(selection.threads) > 0
    /\ Len(selection.threads) < Len(all_threads)

\* a thread whose created_at parses, to a time from the epoch up to clock
StampedUpTo(thread, clock) ==
    /\ thread.created_at # <<>>
    /\ thread.created_at[1].fmt = "utc"
    /\ thread.created_at[1].t >= 0
    /\ thread.created_at[1].t <= clock

TimeFilterRan ==
    \/ pc = "by_time" /\ answer' \in {"1", "2", "3", "4"}
    \/ pc = "custom_range" /\ CutoffAccepted'

\* C28: 'all time' yields exactly the threads whose creation time parses and
\* lies in [0, now]; no result of the time menu or of the custom cutoff holds a
\* thread whose creation time is missing, does not parse or is later than now.
C28_AllTimeIsNotEverything ==
    [][/\ (pc = "by_time" /\ answer' = "4")
            => threads_to_delete' =
                 SelectSeq(all_threads, LAMBDA th : StampedUpTo(th, now'))
       /\ TimeFilterRan
            => \A j \in 1..Len(threads_to_delete') :
                 LET th == threads_to_delete'[j]
                 IN /\ th.created_at # <<>>
                    /\ th.created_at[1].fmt = "utc"
                    /\ th.created_at[1].t <= now']_vars

\* 'all time' on a thread without created_at and a thread created at the epoch
C28_Witness ==
    /\ pc = "time_review"
    /\ answer = "4"
    /\ Len(all_threads) = 2
    /\ all_threads[1].created_at = <<>>
    /\ all_threads[2].created_at = <<[fmt |-> "utc", t |-> 0]>>
    /\ threads_to_delete = <<all_threads[2]>>

\* C25: at every point of the run at most one request is in flight, and a
\* request is in flight exactly while the program is suspended on it.
C25_OneRequestInFlight ==
    /\ in_flight \in {0, 1}
    /\ in_flight = 1 <=> pc \in {"probe_wait", "page_wait", "delete_wait"}

\* the third DELETE is in flight after the first two have come back
C25_Witness ==
    /\ pc = "delete_wait"
    /\ in_flight = 1
    /\ Len(Deletes) = 2
    /\ Len(selection.threads) > 2

====
